---- MODULE Spec2Model ----
(***************************************************************************)
(* Model of the notebook "10. Panel Strategies": the SMA crossover         *)
(* function calculate_sma, the loop that applies it to every Ticker group  *)
(* of the panel, the grouped return / cumulative return cell, the subset   *)
(* of one stock and the EMA crossover cell.                                *)
(*                                                                         *)
(* A data frame is a function from column names to columns; a column is a  *)
(* sequence of cells, one per row.  A numeric cell is an exact rational    *)
(* [nan, n, d] in lowest terms (d > 0) or the missing value NaN: float     *)
(* arithmetic is modelled exactly, without rounding.  The columns index,   *)
(* Ticker and DlyCalDt hold plain integers.                                *)
(***************************************************************************)
EXTENDS Integers, Sequences, FiniteSets

\* ------------------------------------------------------------------ bounds
\* rows of the panel, window lengths, ticker keys and integer closes explored
MaxRows == 3
MaxWindow == 3
Tickers == {1, 2}
Prices == {1, 2}
Windows == -1 .. MaxWindow

\* ------------------------------------------------------- numeric cells
NaN == [nan |-> TRUE, n |-> 0, d |-> 1]

Abs(x) == IF x < 0 THEN -x ELSE x

RECURSIVE GCD(_, _)
GCD(a, b) == IF b = 0 THEN a ELSE GCD(b, a % b)

\* the rational n/d (d # 0) in lowest terms
Rat(n, d) ==
    LET g == GCD(Abs(n), Abs(d))
        s == IF d < 0 THEN -1 ELSE 1
    IN  [nan |-> FALSE, n |-> (s * n) \div g, d |-> (s * d) \div g]

Num(k) == [nan |-> FALSE, n |-> k, d |-> 1]

\* float arithmetic: a missing operand gives a missing result
Add(a, b) == IF a.nan \/ b.nan THEN NaN ELSE Rat(a.n * b.d + b.n * a.d, a.d * b.d)
Sub(a, b) == IF a.nan \/ b.nan THEN NaN ELSE Rat(a.n * b.d - b.n * a.d, a.d * b.d)
Mul(a, b) == IF a.nan \/ b.nan THEN NaN ELSE Rat(a.n * b.n, a.d * b.d)
Div(a, b) == IF a.nan \/ b.nan THEN NaN ELSE Rat(a.n * b.d, a.d * b.n)

\* a > b on floats: False as soon as one side is missing
Gt(a, b) == ~a.nan /\ ~b.nan /\ a.n * b.d > b.n * a.d

\* ------------------------------------------------------ column operations
RECURSIVE SumRange(_, _, _)
SumRange(col, lo, hi) ==
    IF lo > hi THEN Num(0) ELSE Add(SumRange(col, lo, hi - 1), col[hi])

\* rolling(window=w, min_periods=1).mean(): no warm-up gap
RollingMeanMinPeriods1(col, w) ==
    [i \in 1 .. Len(col) |->
        IF w >= 1
        THEN LET lo == IF i >= w THEN i - w + 1 ELSE 1
             IN  Div(SumRange(col, lo, i), Num(i - lo + 1))
        ELSE NaN]

\* Series.rolling(window=w).mean(), w >= 0: min_periods defaults to the window
RollingMean(col, w) ==
    [i \in 1 .. Len(col) |->
        IF w >= 1 /\ i >= w THEN Div(SumRange(col, i - w + 1, i), Num(w)) ELSE NaN]

\* Series.ewm(span=s, adjust=False).mean(), s >= 1:
\* y[0] = x[0], y[t] = (1 - a) y[t-1] + a x[t] with a = 2 / (s + 1)
RECURSIVE EwmAt(_, _, _)
EwmAt(col, s, i) ==
    IF i = 1 THEN col[1]
    ELSE Add(Mul(Rat(s - 1, s + 1), EwmAt(col, s, i - 1)), Mul(Rat(2, s + 1), col[i]))

\* ewm(span=s, adjust=False, min_periods=s).mean(): a burn-in gap of s - 1 rows
EwmMeanMinPeriods(col, s) == [i \in 1 .. Len(col) |-> IF i < s THEN NaN ELSE EwmAt(col, s, i)]

EwmMean(col, s) == [i \in 1 .. Len(col) |-> EwmAt(col, s, i)]

\* np.where(a >= b, 1, -1)
WhereGe(a, b) ==
    [i \in 1 .. Len(a) |->
        IF Gt(a[i], b[i]) \/ (~a[i].nan /\ a[i] = b[i]) THEN Num(1) ELSE Num(-1)]

\* np.where(a > b, 1, -1)
WhereGt(a, b) == [i \in 1 .. Len(a) |-> IF Gt(a[i], b[i]) THEN Num(1) ELSE Num(-1)]

\* np.where(c.isna(), 0, x)
WhereNaZero(c, x) == [i \in 1 .. Len(c) |-> IF c[i].nan THEN Num(0) ELSE x[i]]

\* no shift at all
ShiftNone(col) == col

\* Series.shift(-1): one period up, the last row missing
ShiftBack(col) == [i \in 1 .. Len(col) |-> IF i = Len(col) THEN NaN ELSE col[i + 1]]

\* Series.shift(): one period down, the first row missing
Shift(col) == [i \in 1 .. Len(col) |-> IF i = 1 THEN NaN ELSE col[i - 1]]

\* Series.pct_change()
PctChange(col) ==
    [i \in 1 .. Len(col) |-> IF i = 1 THEN NaN ELSE Sub(Div(col[i], col[i - 1]), Num(1))]

\* a * b, row by row
Times(a, b) == [i \in 1 .. Len(a) |-> Mul(a[i], b[i])]

\* 1 + a
OnePlus(col) == [i \in 1 .. Len(col) |-> Add(Num(1), col[i])]

\* a - 1
MinusOne(col) == [i \in 1 .. Len(col) |-> Sub(col[i], Num(1))]

\* the product of the values present among col[1..i]
RECURSIVE ProdUpTo(_, _)
ProdUpTo(col, i) ==
    IF i = 0 THEN Num(1)
    ELSE IF col[i].nan THEN ProdUpTo(col, i - 1)
    ELSE Mul(ProdUpTo(col, i - 1), col[i])

\* Series.cumprod(): missing values are skipped and stay missing
CumProd(col) ==
    [i \in 1 .. Len(col) |-> IF col[i].nan THEN NaN ELSE ProdUpTo(col, i)]

\* ------------------------------------------------------------- data frames
NRows(f) == Len(f.index)

\* df[name] = col (a new column, or an existing one replaced)
WithCol(f, name, col) == [c \in DOMAIN f \cup {name} |-> IF c = name THEN col ELSE f[c]]

\* the rows of f at the positions pos, in that order
Take(f, pos) == [c \in DOMAIN f |-> [k \in 1 .. Len(pos) |-> f[c][pos[k]]]]

\* the positions of the rows whose key is t, ascending
PosOf(keycol, t) ==
    SelectSeq([i \in 1 .. Len(keycol) |-> i], LAMBDA i : keycol[i] = t)

RECURSIVE SortedSeq(_)
SortedSeq(S) ==
    IF S = {} THEN <<>>
    ELSE LET m == CHOOSE x \in S : \A y \in S : x <= y
         IN  <<m>> \o SortedSeq(S \ {m})

\* the keys of df.groupby("Ticker"): the distinct tickers, sorted
GroupKeys(f) == SortedSeq({f.Ticker[i] : i \in 1 .. NRows(f)})

\* for name, group in df.groupby("Ticker"): one frame per key, in key order,
\* each holding the rows of that key in their original order
GroupFrames(f) ==
    LET keys == GroupKeys(f)
    IN  [k \in 1 .. Len(keys) |-> Take(f, PosOf(f.Ticker, keys[k]))]

\* pd.concat(frames) for a non-empty list of frames with the same columns
RECURSIVE ConcatCol(_, _, _)
ConcatCol(frames, c, k) ==
    IF k = 0 THEN <<>> ELSE ConcatCol(frames, c, k - 1) \o frames[k][c]

\* only the last frame of the list
ConcatLast(frames) == frames[Len(frames)]

Concat(frames) == [c \in DOMAIN frames[1] |-> ConcatCol(frames, c, Len(frames))]

\* the rank of row i among the rows that share its key
RankIn(keycol, i) == Cardinality({j \in 1 .. i : keycol[j] = keycol[i]})

\* df.DlyClose.pct_change(), the grouping forgotten
UngroupedPctChange(col, keycol) == PctChange(col)

\* df.groupby("Ticker").DlyClose.pct_change(): pct_change inside each group,
\* the results put back at the rows they came from
GroupedPctChange(col, keycol) ==
    [i \in 1 .. Len(col) |->
        PctChange(Take([v |-> col], PosOf(keycol, keycol[i])).v)[RankIn(keycol, i)]]

\* col.groupby(df.Ticker).cumprod()
GroupedCumProd(col, keycol) ==
    [i \in 1 .. Len(col) |->
        CumProd(Take([v |-> col], PosOf(keycol, keycol[i])).v)[RankIn(keycol, i)]]

\* df.groupby("Ticker").get_group(t).copy().set_index("DlyCalDt")
GetGroup(f, t) ==
    LET g == Take(f, PosOf(f.Ticker, t))
    IN  [c \in (DOMAIN g) \ {"DlyCalDt"} |-> IF c = "index" THEN g.DlyCalDt ELSE g[c]]

\* ------------------------------------------------------------------ state
VARIABLES
    df,           \* the panel frame `df`
    fast_window,  \* the fast window of the run
    slow_window,  \* the slow window of the run
    grouped,      \* the groups the loop has still to visit
    groups,       \* the list `groups` of frames calculate_sma returned
    dfi,          \* the frame calculate_sma works on (its parameter dfi)
    arg,          \* the caller's object that was passed as dfi (group, or df)
    passed,       \* that object as it was when calculate_sma was called
    caller,       \* who called calculate_sma: "loop", "direct" or "none"
    meta,         \* the frame `meta`
    ema,          \* the frame `ema`
    pc,           \* the statement to run next
    err,          \* the exception that ended the run and the statement that raised it
    input         \* the panel as loaded

vars == <<df, fast_window, slow_window, grouped, groups, dfi, arg, passed, caller,
          meta, ema, pc, err, input>>

NoFrame == [index |-> <<>>]

NoError == [type |-> "none", at |-> "none"]

\* the panels read_csv can deliver: a RangeIndex, a ticker and a close per row,
\* and per ticker strictly ascending dates (the day number within the ticker)
Panel(tick, close) ==
    [index    |-> [i \in 1 .. Len(tick) |-> i - 1],
     Ticker   |-> tick,
     DlyCalDt |-> [i \in 1 .. Len(tick) |-> RankIn(tick, i) - 1],
     DlyClose |-> [i \in 1 .. Len(tick) |-> Num(close[i])]]

Panels ==
    UNION {{Panel(tick, close) : tick \in [1 .. n -> Tickers], close \in [1 .. n -> Prices]} :
           n \in 0 .. MaxRows}

\* The window pair is a parameter of the run: it stands for the pair the loop
\* passes to calculate_sma (121) and the EMA cell assigns (255), 50 and 200 in
\* both places.
Init ==
    /\ df \in Panels
    /\ input = df
    /\ fast_window \in Windows
    /\ slow_window \in Windows
    /\ grouped = <<>>
    /\ groups = <<>>
    /\ dfi = NoFrame
    /\ arg = NoFrame
    /\ passed = NoFrame
    /\ caller = "none"
    /\ meta = NoFrame
    /\ ema = NoFrame
    /\ pc = "start"
    /\ err = NoError

\* an exception ends the run
Raise(e) == pc' = "error" /\ err' = [type |-> e, at |-> pc]

\* ------------------------------------------------- the panel loop (116-123)
GroupBy ==
    /\ pc = "start"
    /\ grouped' = GroupFrames(df)
    /\ groups' = <<>>
    /\ pc' = "loop"
    /\ UNCHANGED <<df, fast_window, slow_window, dfi, arg, passed, caller, meta, ema, err, input>>

LoopNext ==
    /\ pc = "loop"
    /\ grouped # <<>>
    /\ dfi' = Head(grouped)
    /\ arg' = Head(grouped)
    /\ passed' = Head(grouped)
    /\ grouped' = Tail(grouped)
    /\ caller' = "loop"
    /\ pc' = "sma_fast"
    /\ UNCHANGED <<df, fast_window, slow_window, groups, meta, ema, err, input>>

ConcatGroups ==
    /\ pc = "loop"
    /\ grouped = <<>>
    /\ IF groups = <<>>
       THEN Raise("ValueError") /\ UNCHANGED df
       ELSE df' = Concat(groups) /\ pc' = "ret_market" /\ UNCHANGED err
    /\ UNCHANGED <<fast_window, slow_window, grouped, groups, dfi, arg, passed, caller, meta, ema, input>>

\* a frame that holds the rows of at most one stock
SingleAsset(f) == Cardinality({f.Ticker[i] : i \in 1 .. NRows(f)}) <= 1

\* df = calculate_sma(df, fast_window, slow_window) on a single stock's frame,
\* the empty frame included
DirectCall ==
    /\ pc = "start"
    /\ SingleAsset(df)
    /\ dfi' = df
    /\ arg' = df
    /\ passed' = df
    /\ caller' = "direct"
    /\ pc' = "sma_fast"
    /\ UNCHANGED <<df, fast_window, slow_window, grouped, groups, meta, ema, err, input>>

\* ------------------------------------------------- calculate_sma (68-80)
\* The cell holds the statements of the function out of order.  The order run
\* here is the one their data dependencies and the EMA cell (257-263) give:
\* both averages, the raw Signal, the zeroing of Signal, then the shift.
\* rolling(window=w) accepts an integer window of 0 or more
RollingValidTight(w) == w >= 1
RollingValid(w) == w >= 0

\* dfi is the object the caller passed, not a copy of it: what an assignment
\* to dfi leaves in the caller's object
AliasCopy(f, a) == a
Alias(f, a) == f

\* dfi[name] = col
SmaAssign(name, col) ==
    /\ dfi' = WithCol(dfi, name, col)
    /\ arg' = Alias(dfi', arg)
    /\ df' = IF caller = "direct" THEN arg' ELSE df

SmaFrame == <<fast_window, slow_window, grouped, groups, passed, caller, meta, ema, input>>

SmaFastMA ==
    /\ pc = "sma_fast"
    /\ RollingValid(fast_window)
    /\ SmaAssign("FastMA", RollingMean(dfi.DlyClose, fast_window))
    /\ pc' = "sma_slow"
    /\ UNCHANGED <<SmaFrame, err>>

SmaFastMARaise ==
    /\ pc = "sma_fast"
    /\ ~RollingValid(fast_window)
    /\ Raise("ValueError")
    /\ UNCHANGED <<SmaFrame, df, dfi, arg>>

SmaSlowMA ==
    /\ pc = "sma_slow"
    /\ RollingValid(slow_window)
    /\ SmaAssign("SlowMA", RollingMean(dfi.DlyClose, slow_window))
    /\ pc' = "sma_signal"
    /\ UNCHANGED <<SmaFrame, err>>

SmaSlowMARaise ==
    /\ pc = "sma_slow"
    /\ ~RollingValid(slow_window)
    /\ Raise("ValueError")
    /\ UNCHANGED <<SmaFrame, df, dfi, arg>>

SmaSignal ==
    /\ pc = "sma_signal"
    /\ SmaAssign("Signal", WhereGt(dfi.FastMA, dfi.SlowMA))
    /\ pc' = "sma_zero"
    /\ UNCHANGED <<SmaFrame, err>>

SmaZeroSignal ==
    /\ pc = "sma_zero"
    /\ SmaAssign("Signal", WhereNaZero(dfi.SlowMA, dfi.Signal))
    /\ pc' = "sma_position"
    /\ UNCHANGED <<SmaFrame, err>>

SmaPosition ==
    /\ pc = "sma_position"
    /\ SmaAssign("Position", Shift(dfi.Signal))
    /\ pc' = "sma_return"
    /\ UNCHANGED <<SmaFrame, err>>

\* return dfi, to groups.append(...) of the loop or to the direct caller
SmaReturn ==
    /\ pc = "sma_return"
    /\ IF caller = "loop"
       THEN groups' = Append(groups, dfi) /\ pc' = "loop" /\ UNCHANGED df
       ELSE df' = dfi /\ pc' = "ret_market" /\ UNCHANGED groups
    /\ UNCHANGED <<fast_window, slow_window, grouped, dfi, arg, passed, caller, meta, ema, err, input>>

\* ------------------------------------------------ the returns cell (140-145)
CellFrame == <<fast_window, slow_window, grouped, groups, dfi, arg, passed, caller, input>>

RetMarketDaily ==
    /\ pc = "ret_market"
    /\ df' = WithCol(df, "MarketDaily", GroupedPctChange(df.DlyClose, df.Ticker))
    /\ pc' = "ret_stratdaily"
    /\ UNCHANGED <<CellFrame, meta, ema, err>>

RetStrategyDaily ==
    /\ pc = "ret_stratdaily"
    /\ df' = WithCol(df, "StrategyDaily", Times(df.Position, df.MarketDaily))
    /\ pc' = "ret_cummarket"
    /\ UNCHANGED <<CellFrame, meta, ema, err>>

RetMarket ==
    /\ pc = "ret_cummarket"
    /\ df' = WithCol(df, "Market", GroupedCumProd(OnePlus(df.MarketDaily), df.Ticker))
    /\ pc' = "ret_cumstrategy"
    /\ UNCHANGED <<CellFrame, meta, ema, err>>

RetStrategy ==
    /\ pc = "ret_cumstrategy"
    /\ df' = WithCol(df, "Strategy", GroupedCumProd(OnePlus(df.StrategyDaily), df.Ticker))
    /\ pc' = "meta"
    /\ UNCHANGED <<CellFrame, meta, ema, err>>

\* ------------------------------------------------- the single stock (182-183)
HasTicker(f, t) == \E i \in 1 .. NRows(f) : f.Ticker[i] = t

SubsetMeta ==
    /\ pc = "meta"
    /\ \E t \in Tickers :
          /\ HasTicker(df, t)
          /\ meta' = GetGroup(df, t)
    /\ pc' = "ema_copy"
    /\ UNCHANGED <<CellFrame, df, ema, err>>

\* get_group of a ticker the panel does not hold
SubsetMetaRaise ==
    /\ pc = "meta"
    /\ \E t \in Tickers : ~HasTicker(df, t)
    /\ Raise("KeyError")
    /\ UNCHANGED <<CellFrame, df, meta, ema>>

\* ------------------------------------------------------ the EMA cell (251-268)
\* ewm(span=s) accepts a span of 1 or more
EwmValid(s) == s >= 1

EmaCopy ==
    /\ pc = "ema_copy"
    /\ ema' = meta
    /\ pc' = "ema_fast"
    /\ UNCHANGED <<CellFrame, df, meta, err>>

EmaFastEMA ==
    /\ pc = "ema_fast"
    /\ EwmValid(fast_window)
    /\ ema' = WithCol(ema, "FastEMA", EwmMean(ema.DlyClose, fast_window))
    /\ pc' = "ema_slow"
    /\ UNCHANGED <<CellFrame, df, meta, err>>

EmaFastEMARaise ==
    /\ pc = "ema_fast"
    /\ ~EwmValid(fast_window)
    /\ Raise("ValueError")
    /\ UNCHANGED <<CellFrame, df, meta, ema>>

EmaSlowEMA ==
    /\ pc = "ema_slow"
    /\ EwmValid(slow_window)
    /\ ema' = WithCol(ema, "SlowEMA", EwmMean(ema.DlyClose, slow_window))
    /\ pc' = "ema_signal"
    /\ UNCHANGED <<CellFrame, df, meta, err>>

EmaSlowEMARaise ==
    /\ pc = "ema_slow"
    /\ ~EwmValid(slow_window)
    /\ Raise("ValueError")
    /\ UNCHANGED <<CellFrame, df, meta, ema>>

EmaSignal ==
    /\ pc = "ema_signal"
    /\ ema' = WithCol(ema, "Signal", WhereGt(ema.FastEMA, ema.SlowEMA))
    /\ pc' = "ema_zero"
    /\ UNCHANGED <<CellFrame, df, meta, err>>

EmaZeroSignal ==
    /\ pc = "ema_zero"
    /\ ema' = WithCol(ema, "Signal", WhereNaZero(ema.SlowEMA, ema.Signal))
    /\ pc' = "ema_position"
    /\ UNCHANGED <<CellFrame, df, meta, err>>

EmaPosition ==
    /\ pc = "ema_position"
    /\ ema' = WithCol(ema, "Position", Shift(ema.Signal))
    /\ pc' = "ema_stratret"
    /\ UNCHANGED <<CellFrame, df, meta, err>>

EmaStratRet ==
    /\ pc = "ema_stratret"
    /\ ema' = WithCol(ema, "StratRet", Times(ema.Position, ema.MarketDaily))
    /\ pc' = "ema_strategy"
    /\ UNCHANGED <<CellFrame, df, meta, err>>

EmaStrategy ==
    /\ pc = "ema_strategy"
    /\ ema' = WithCol(ema, "Strategy", MinusOne(CumProd(OnePlus(ema.StratRet))))
    /\ pc' = "done"
    /\ UNCHANGED <<CellFrame, df, meta, err>>

Next ==
    \/ GroupBy \/ LoopNext \/ ConcatGroups \/ DirectCall
    \/ SmaFastMA \/ SmaFastMARaise \/ SmaSlowMA \/ SmaSlowMARaise
    \/ SmaSignal \/ SmaZeroSignal \/ SmaPosition \/ SmaReturn
    \/ RetMarketDaily \/ RetStrategyDaily \/ RetMarket \/ RetStrategy
    \/ SubsetMeta \/ SubsetMetaRaise
    \/ EmaCopy \/ EmaFastEMA \/ EmaFastEMARaise \/ EmaSlowEMA \/ EmaSlowEMARaise
    \/ EmaSignal \/ EmaZeroSignal \/ EmaPosition \/ EmaStratRet \/ EmaStrategy

Spec == Init /\ [][Next]_vars

\* ================================================================ properties
Has(f, c) == c \in DOMAIN f

\* the statements at which calculate_sma's Signal, and its Position, are final
SmaSignalFinal == {"sma_position", "sma_return"}
EmaSignalFinal == {"ema_position", "ema_stratret", "ema_strategy", "done"}
EmaPositionFinal == {"ema_stratret", "ema_strategy", "done"}
EmaAveraged == {"ema_signal", "ema_zero"} \cup EmaSignalFinal
SmaAveraged == {"sma_signal", "sma_zero"} \cup SmaSignalFinal

\* the rows of frame f that belong to ticker t
RowsOf(f, t) == Take(f, PosOf(f.Ticker, t))

\* sig follows the crossover rule for the averages fast and slow
SignalRule(sig, fast, slow) ==
    \A i \in 1 .. Len(sig) :
        /\ sig[i] \in {Num(-1), Num(0), Num(1)}
        /\ slow[i].nan => sig[i] = Num(0)
        /\ (~slow[i].nan /\ ~fast[i].nan /\ fast[i].n * slow[i].d > slow[i].n * fast[i].d)
              => sig[i] = Num(1)
        /\ (~slow[i].nan /\ ~(~fast[i].nan /\ fast[i].n * slow[i].d > slow[i].n * fast[i].d))
              => sig[i] = Num(-1)
        /\ (~slow[i].nan /\ fast[i] = slow[i]) => sig[i] = Num(-1)

\* C1: Signal is 0 exactly where SlowAvg is undefined, otherwise +1 when
\* FastAvg > SlowAvg and -1 when not (equal averages give -1); no other value
\* appears.  Checked on the frame calculate_sma returns, on the panel as the
\* returns cell receives it and on the EMA frame.
C1_SignalRule ==
    /\ pc \in SmaSignalFinal => SignalRule(dfi.Signal, dfi.FastMA, dfi.SlowMA)
    /\ pc = "ret_market" => SignalRule(df.Signal, df.FastMA, df.SlowMA)
    /\ pc \in EmaSignalFinal => SignalRule(ema.Signal, ema.FastEMA, ema.SlowEMA)

\* a finished run whose SMA signal takes the values 0, +1 and -1 (the last on a
\* tie of the two averages) and whose EMA signal takes both -1 and +1
C1_Witness ==
    /\ pc = "done"
    /\ \E i, j, k \in 1 .. NRows(df) :
          /\ df.Signal[i] = Num(0) /\ df.SlowMA[i].nan
          /\ df.Signal[j] = Num(1)
          /\ df.Signal[k] = Num(-1) /\ df.FastMA[k] = df.SlowMA[k] /\ ~df.SlowMA[k].nan
    /\ \E i, j \in 1 .. NRows(ema) : ema.Signal[i] = Num(1) /\ ema.Signal[j] = Num(-1)

\* pos is sig moved down by one row, the first row missing
Lagged(pos, sig) ==
    /\ Len(pos) = Len(sig)
    /\ \A i \in 1 .. Len(pos) : pos[i] = IF i = 1 THEN NaN ELSE sig[i - 1]

\* C2: Position[i] is the final Signal[i-1] (already forced to 0 where SlowAvg
\* is undefined) for every i >= 1, and Position[0] is missing.
C2_PositionLag ==
    /\ pc = "sma_return" =>
          /\ Lagged(dfi.Position, dfi.Signal)
          /\ \A i \in 2 .. NRows(dfi) : dfi.SlowMA[i - 1].nan => dfi.Position[i] = Num(0)
    /\ pc = "ret_market" =>
          /\ \A t \in Tickers : Lagged(RowsOf(df, t).Position, RowsOf(df, t).Signal)
          /\ \A i \in 2 .. NRows(df) :
                (df.Ticker[i - 1] = df.Ticker[i] /\ df.SlowMA[i - 1].nan)
                    => df.Position[i] = Num(0)
    /\ pc \in EmaPositionFinal => Lagged(ema.Position, ema.Signal)

\* calculate_sma about to return a series whose Position is missing, then 0
\* (the warm-up signal), then the +1 or -1 of the day before
C2_Witness ==
    /\ pc = "sma_return"
    /\ NRows(dfi) >= 3
    /\ dfi.Position[1].nan
    /\ dfi.SlowMA[1].nan /\ dfi.Position[2] = Num(0)
    /\ dfi.Position[3] = Num(1) /\ dfi.Signal[2] = Num(1)

\* the sum of the integer closes of rows lo..hi
RECURSIVE CloseSum(_, _, _)
CloseSum(close, lo, hi) == IF lo > hi THEN 0 ELSE CloseSum(close, lo, hi - 1) + close[hi].n

\* avg is the simple moving average of close over w >= 1 rows
IsSimpleAverage(avg, close, w) ==
    \A i \in 1 .. Len(close) :
        /\ avg[i].nan <=> i < w
        /\ i >= w => avg[i].n * w = CloseSum(close, i - w + 1, i) * avg[i].d

Defined(col) == \A i \in 1 .. Len(col) : ~col[i].nan

\* C6: with windows >= 1 the simple averages are undefined exactly at the
\* indices below window-1 and are the mean of the last `window` closes from
\* there on; the exponential averages are defined at every index.
C6_AverageDefined ==
    /\ (pc \in SmaAveraged /\ fast_window >= 1) =>
          IsSimpleAverage(dfi.FastMA, dfi.DlyClose, fast_window)
    /\ (pc \in SmaAveraged /\ slow_window >= 1) =>
          IsSimpleAverage(dfi.SlowMA, dfi.DlyClose, slow_window)
    /\ (pc = "ret_market" /\ fast_window >= 1 /\ slow_window >= 1) =>
          \A t \in Tickers :
              /\ IsSimpleAverage(RowsOf(df, t).FastMA, RowsOf(df, t).DlyClose, fast_window)
              /\ IsSimpleAverage(RowsOf(df, t).SlowMA, RowsOf(df, t).DlyClose, slow_window)
    /\ pc \in EmaAveraged => Defined(ema.FastEMA) /\ Defined(ema.SlowEMA)

\* a three-row series whose slow average (window 2) is missing at the first row
\* and defined afterwards while the fast one (window 1) is defined throughout,
\* in a run that went on to finish the EMA cell
C6_Witness ==
    /\ pc = "done"
    /\ fast_window = 1 /\ slow_window = 2
    /\ NRows(dfi) = 3
    /\ dfi.SlowMA[1].nan /\ ~dfi.SlowMA[2].nan /\ ~dfi.FastMA[1].nan
    /\ dfi.SlowMA[3] = Rat(3, 2)

\* C10: under the exponential variant FastEMA[0] = SlowEMA[0] = close[0], so
\* Signal[0] is -1 and Position[1] is -1 whatever the prices; Signal is never 0.
C10_EmaStartsShort ==
    /\ pc \in EmaSignalFinal =>
          /\ ema.FastEMA[1] = ema.DlyClose[1]
          /\ ema.SlowEMA[1] = ema.DlyClose[1]
          /\ ema.Signal[1] = Num(-1)
          /\ \A i \in 1 .. NRows(ema) : ema.Signal[i] # Num(0)
    /\ (pc \in EmaPositionFinal /\ NRows(ema) >= 2) => ema.Position[2] = Num(-1)

\* a finished EMA run on rising prices with fast < slow: short on the first
\* tradable day although the fast average is above the slow one from then on
C10_Witness ==
    /\ pc = "done"
    /\ fast_window < slow_window
    /\ NRows(ema) >= 3
    /\ Gt(ema.DlyClose[2], ema.DlyClose[1])
    /\ ema.Position[2] = Num(-1)
    /\ ema.Signal[2] = Num(1)
    /\ ema.Position[3] = Num(1)

\* the product of (1 + r[j]) over the rows j <= i of r that hold a value
RECURSIVE Compound(_, _)
Compound(r, i) ==
    IF i = 0 THEN Num(1)
    ELSE IF r[i].nan THEN Compound(r, i - 1)
    ELSE Mul(Compound(r, i - 1), Add(Num(1), r[i]))

\* cum is the cumulative return of the daily returns r: the running product of
\* (1 + r) minus 1, wherever the daily return exists
IsCumulativeReturn(cum, r) ==
    \A i \in 1 .. Len(r) : ~r[i].nan => cum[i] = Sub(Compound(r, i), Num(1))

\* C3: at every index of an asset's series the cumulative market return is the
\* product of (1 + DailyReturn) minus 1 and the cumulative strategy return the
\* product of (1 + Position * DailyReturn) minus 1, in the panel columns Market
\* and Strategy and in the EMA column Strategy.
C3_CumulativeReturns ==
    /\ Has(df, "Strategy") =>
          \A t \in Tickers :
              LET g == RowsOf(df, t)
              IN  /\ IsCumulativeReturn(g.Market, g.MarketDaily)
                  /\ IsCumulativeReturn(g.Strategy, Times(g.Position, g.MarketDaily))
    /\ pc = "done" =>
          IsCumulativeReturn(ema.Strategy, Times(ema.Position, ema.MarketDaily))

\* the single-asset computation on the closes of one stock: every derived column
SingleStock(close, fw, sw) ==
    LET fast  == RollingMean(close, fw)
        slow  == RollingMean(close, sw)
        sig   == WhereNaZero(slow, WhereGt(fast, slow))
        pos   == Shift(sig)
        daily == PctChange(close)
        strat == Times(pos, daily)
    IN  [FastMA |-> fast, SlowMA |-> slow, Signal |-> sig, Position |-> pos,
         MarketDaily |-> daily, StrategyDaily |-> strat,
         Market |-> CumProd(OnePlus(daily)), Strategy |-> CumProd(OnePlus(strat))]

SmaPcs == {"sma_fast", "sma_slow", "sma_signal", "sma_zero", "sma_position", "sma_return"}
EmaPcs == {"ema_fast", "ema_slow"} \cup EmaAveraged
SmaDerived == {"FastMA", "SlowMA", "Signal", "Position"}

\* C5 as stated: the crossover computation fails (InvalidWindow, EmptySeries)
\* when a window is non-positive or the series has no rows, the failure comes
\* before any derived column is computed, and nothing else raises.
C5_ValidationErrors ==
    /\ pc = "sma_return" =>
          fast_window >= 1 /\ slow_window >= 1 /\ NRows(passed) >= 1
    /\ pc = "done" => fast_window >= 1 /\ slow_window >= 1 /\ NRows(meta) >= 1
    /\ err.at \in SmaPcs =>
          /\ dfi = passed
          /\ fast_window < 1 \/ slow_window < 1 \/ NRows(passed) = 0
    /\ err.at \in EmaPcs =>
          /\ ema = meta
          /\ fast_window < 1 \/ slow_window < 1 \/ NRows(meta) = 0

\* C5 amended: nothing is validated by the crossover code itself.  The only
\* failures are the library's ValueError, for a negative rolling window and for
\* an ewm span below 1; a rolling window of 0 and an empty series are accepted.
\* The fast window is rejected before any derived column exists, the slow one
\* only after the fast average has been computed and stored.
C5_LibraryErrors ==
    /\ err.at \in SmaPcs \cup EmaPcs =>
          err.type = "ValueError" /\ err.at \in {"sma_fast", "sma_slow", "ema_fast", "ema_slow"}
    /\ err.at = "sma_fast" => fast_window < 0 /\ dfi = passed
    /\ err.at = "sma_slow" =>
          /\ slow_window < 0 /\ fast_window >= 0
          /\ DOMAIN dfi = DOMAIN passed \cup {"FastMA"}
    /\ pc \in SmaPcs \ {"sma_fast"} => fast_window >= 0
    /\ pc \in SmaPcs \ {"sma_fast", "sma_slow"} => slow_window >= 0
    /\ pc = "sma_return" =>
          /\ DOMAIN dfi = DOMAIN passed \cup SmaDerived
          /\ slow_window = 0 => \A i \in 1 .. NRows(dfi) : dfi.Signal[i] = Num(0)
    /\ err.at = "ema_fast" => fast_window < 1 /\ ema = meta
    /\ err.at = "ema_slow" =>
          /\ slow_window < 1 /\ fast_window >= 1
          /\ DOMAIN ema = DOMAIN meta \cup {"FastEMA"}
    /\ pc \in EmaPcs \ {"ema_fast"} => fast_window >= 1
    /\ pc \in EmaPcs \ {"ema_fast", "ema_slow"} => slow_window >= 1

\* calculate_sma about to return normally from an empty series and windows of 0
C5_Witness ==
    /\ pc = "sma_return"
    /\ err = NoError
    /\ NRows(passed) = 0
    /\ fast_window = 0 /\ slow_window = 0
    /\ DOMAIN dfi = DOMAIN passed \cup SmaDerived

\* C7 as stated: when calculate_sma returns, the frame the caller passed is
\* unchanged and the derived columns exist only in the returned result.
C7_InputUnchanged ==
    pc = "sma_return" =>
        /\ arg = passed
        /\ \A c \in SmaDerived : Has(dfi, c) /\ ~Has(arg, c)

\* C7 amended: calculate_sma adds FastMA, SlowMA, Signal and Position to the
\* frame it was passed and returns that same frame; the rows and the values of
\* the columns the frame came with are unchanged, and the panel df the loop
\* iterates over is not touched by the calls.
C7_InputAugmented ==
    /\ pc = "sma_return" =>
          /\ arg = dfi
          /\ DOMAIN arg = DOMAIN passed \cup SmaDerived
          /\ \A c \in DOMAIN passed : arg[c] = passed[c]
    /\ (caller = "loop" /\ pc \in SmaPcs) => df = input
    /\ (caller = "direct" /\ pc \in SmaPcs) => df = arg

\* calculate_sma about to return the second group of the loop: the group the
\* caller passed now carries the derived columns it did not have
C7_Witness ==
    /\ pc = "sma_return"
    /\ caller = "loop"
    /\ Len(groups) = 1
    /\ NRows(arg) >= 2
    /\ ~Has(passed, "Position")
    /\ Has(arg, "Position") /\ arg.Position[2] # NaN

\* the index labels of the rows of ticker t, in frame order
IndexOf(f, t) == Take([index |-> f.index], PosOf(f.Ticker, t)).index

\* every column of f has n rows
Rectangular(f, n) == \A c \in DOMAIN f : Len(f[c]) = n

\* C8: the output has exactly the rows of the input, in the same order: the
\* frame calculate_sma works on keeps the rows it was passed (none dropped in
\* the warm-up, none added), the concatenated panel has as many rows as the
\* input panel, and each asset keeps its rows, in their order.
C8_RowsPreserved ==
    /\ pc \in SmaPcs => Rectangular(dfi, NRows(passed)) /\ dfi.index = passed.index
    /\ Rectangular(df, NRows(input))
    /\ \A t \in Tickers : IndexOf(df, t) = IndexOf(input, t)
    /\ pc \in EmaPcs \cup {"ema_stratret", "ema_strategy", "done"} =>
          Rectangular(ema, NRows(meta)) /\ ema.index = meta.index

\* the concatenated panel of two interleaved stocks: regrouped by ticker, all
\* three rows kept, the warm-up row of the second stock among them
C8_Witness ==
    /\ pc = "ret_market"
    /\ caller = "loop"
    /\ input.Ticker = <<2, 1, 2>>
    /\ df.index = <<1, 0, 2>>
    /\ slow_window = 2
    /\ df.SlowMA[2].nan /\ df.Signal[2] = Num(0) /\ ~df.SlowMA[3].nan

\* the close columns that agree with close on the rows before row i and hold
\* any prices from row i on
AltCloses(close, i) ==
    {[j \in 1 .. Len(close) |-> IF j < i THEN close[j] ELSE Num(suffix[j])] :
        suffix \in [i .. Len(close) -> Prices]}

\* the EMA cell's Signal on the closes of one stock
EmaSignalOf(close, fw, sw) ==
    WhereNaZero(EwmMean(close, sw), WhereGt(EwmMean(close, fw), EwmMean(close, sw)))

\* C9: no lookahead.  Position[i] is the same for every series that has the
\* same closes before index i, whatever its closes from i on are; the strategy
\* return at i is that Position[i] times DailyReturn[i], so the closes from i
\* on reach it only through DailyReturn[i].
C9_NoLookahead ==
    /\ pc = "sma_return" =>
          \A i \in 1 .. NRows(dfi) : \A alt \in AltCloses(passed.DlyClose, i) :
              SingleStock(alt, fast_window, slow_window).Position[i] = dfi.Position[i]
    /\ pc = "ret_cummarket" =>
          \A i \in 1 .. NRows(df) :
              df.StrategyDaily[i] = Mul(df.Position[i], df.MarketDaily[i])
    /\ pc = "ema_stratret" =>
          \A i \in 1 .. NRows(ema) : \A alt \in AltCloses(ema.DlyClose, i) :
              Shift(EmaSignalOf(alt, fast_window, slow_window))[i] = ema.Position[i]
    /\ pc = "ema_strategy" =>
          \A i \in 1 .. NRows(ema) :
              ema.StratRet[i] = Mul(ema.Position[i], ema.MarketDaily[i])

\* a finished run where another last close would have turned both the SMA and
\* the EMA signal of the last day, and the last day's position is taken all the
\* same from the day before
C9_Witness ==
    /\ pc = "done"
    /\ NRows(ema) = 3
    /\ ema.Position[3] = Num(1)
    /\ \E alt \in AltCloses(ema.DlyClose, 3) :
          /\ EmaSignalOf(alt, fast_window, slow_window)[3] # ema.Signal[3]
          /\ SingleStock(alt, fast_window, slow_window).Signal[3] # dfi.Signal[3]

====
